---------------------------- MODULE Spec2Model ----------------------------
(***************************************************************************)
(* Model of src/main.rs: the Rule trait with its four driver rules, the    *)
(* DriverValidator that runs an ordered list of rules against one Driver   *)
(* and collects every error, and the DriverValidatorBuilder.               *)
(*                                                                         *)
(* Values                                                                  *)
(*   Option<T>      a sequence of length 0 (None) or 1 (Some(x))           *)
(*   Result<(), E>  [ok |-> TRUE, err |-> <<>>] or [ok |-> FALSE,          *)
(*                  err |-> <<e>>]                                         *)
(*   f32            [cls, v]: a finite value v (in hundredths), NaN, or    *)
(*                  an infinity; compared as IEEE 754 compares             *)
(*   DateTime<Utc>  an integer instant                                     *)
(*   u8             0 .. U8Max                                             *)
(***************************************************************************)
EXTENDS Integers, Sequences, FiniteSets

VARIABLES
    builder,    \* Option<DriverValidatorBuilder>: Some until build() moves it
    validator,  \* Option<DriverValidator>
    origin,     \* how the validator was made: "none", "builder" or "new"
    calls,      \* the rules given to with_rule so far, in call order
    driver,     \* Option<Driver>: the caller's driver value
    outcomes,   \* the Results of the rules' runs in the last validate call
    result,     \* Option<Vec<DriverError>>: what the last validate returned
    first,      \* the first validate call: its driver, outcomes and result,
                \* and whether validate was called on that driver again
    rule,       \* RuleSpec: the rule under test
    subject,    \* RuleSpec: the driver the rule is run against
    outcome     \* RuleSpec: Option<Result>: what the last run returned

vars == <<builder, validator, origin, calls, driver, outcomes, result, first,
          rule, subject, outcome>>

validatorVars == <<builder, validator, origin, calls, driver, outcomes, result, first>>
ruleVars == <<rule, subject, outcome>>

---------------------------------------------------------------------------
(* Bounds and program constants *)

MaxRules == 3
MaxDate == 1
MaxLevel == 2
U8Max == 255

---------------------------------------------------------------------------
(* Option and Result *)

None == <<>>
Some(x) == <<x>>

Ok == [ok |-> TRUE, err |-> <<>>]
Err(e) == [ok |-> FALSE, err |-> <<e>>]
is_ok(r) == r.ok
unwrap_err(r) == r.err[1]

---------------------------------------------------------------------------
(* f32 *)

Num(n) == [cls |-> "num", v |-> n]
NaN == [cls |-> "nan", v |-> 0]
PosInf == [cls |-> "inf", v |-> 1]
NegInf == [cls |-> "inf", v |-> -1]

\* f32's partial order: every comparison with a NaN is false.
FloatGt(a, b) ==
    /\ a.cls # "nan"
    /\ b.cls # "nan"
    /\ \/ a.cls = "num" /\ b.cls = "num" /\ a.v > b.v
       \/ a.cls = "inf" /\ a.v = 1 /\ b # PosInf
       \/ b.cls = "inf" /\ b.v = -1 /\ a # NegInf

---------------------------------------------------------------------------
(* Data model *)

LicenceType == {"A", "A1", "B", "C", "D", "BE", "CE", "DE"}

Licence(t, e) == [licence_type |-> t, expiration |-> e]

Driver(a, alc, l) == [age |-> a, alcohol_in_blood |-> alc, licence |-> l]

AboveAllowedAlcoholLevel(x) == [kind |-> "AboveAllowedAlcoholLevel", val |-> <<x>>]
UnderRequiredAge(x) == [kind |-> "UnderRequiredAge", val |-> <<x>>]
WithoutLicence == [kind |-> "WithoutLicence", val |-> <<>>]
LicenceExpired(x) == [kind |-> "LicenceExpired", val |-> <<x>>]

IsSober(level) == [kind |-> "IsSober", cfg |-> <<level>>]
HasAge(required) == [kind |-> "HasAge", cfg |-> <<required>>]
HasDrivingLicence == [kind |-> "HasDrivingLicence", cfg |-> <<>>]
HasValidDrivingLicence(date) == [kind |-> "HasValidDrivingLicence", cfg |-> <<date>>]

---------------------------------------------------------------------------
(* The rules *)

is_valid_in_date_strict(licence, date) == licence.expiration > date

is_valid_in_date(licence, date) == licence.expiration >= date

IsSober_run_not_below(self, d) ==
    IF ~FloatGt(self.cfg[1], d.alcohol_in_blood)
      THEN Err(AboveAllowedAlcoholLevel(d.alcohol_in_blood))
      ELSE Ok

IsSober_run(self, d) ==
    IF FloatGt(d.alcohol_in_blood, self.cfg[1])
      THEN Err(AboveAllowedAlcoholLevel(d.alcohol_in_blood))
      ELSE Ok

HasAge_run_inclusive(self, d) ==
    IF d.age <= self.cfg[1]
      THEN Err(UnderRequiredAge(d.age))
      ELSE Ok

HasAge_run(self, d) ==
    IF d.age < self.cfg[1]
      THEN Err(UnderRequiredAge(d.age))
      ELSE Ok

HasDrivingLicence_run_expiry(self, d) ==
    IF d.licence = None \/ d.licence[1].expiration = 0
      THEN Err(WithoutLicence)
      ELSE Ok

HasDrivingLicence_run(self, d) ==
    IF d.licence = None
      THEN Err(WithoutLicence)
      ELSE Ok

HasValidDrivingLicence_run_absent(self, d) ==
    IF d.licence = None
      THEN Err(LicenceExpired(self.cfg[1]))
      ELSE IF ~is_valid_in_date(d.licence[1], self.cfg[1])
             THEN Err(LicenceExpired(d.licence[1].expiration))
             ELSE Ok

HasValidDrivingLicence_run(self, d) ==
    IF d.licence = None
      THEN Ok
      ELSE IF ~is_valid_in_date(d.licence[1], self.cfg[1])
             THEN Err(LicenceExpired(d.licence[1].expiration))
             ELSE Ok

\* rule.run(driver) on a Box<dyn Rule<Driver, DriverError>>
Run(self, d) ==
    CASE self.kind = "IsSober" -> IsSober_run(self, d)
      [] self.kind = "HasAge" -> HasAge_run(self, d)
      [] self.kind = "HasDrivingLicence" -> HasDrivingLicence_run(self, d)
      [] self.kind = "HasValidDrivingLicence" -> HasValidDrivingLicence_run(self, d)

---------------------------------------------------------------------------
(* The validator and its builder *)

DriverValidator_new(rules) == [rules |-> rules]

\* self.rules.iter().map(|rule| rule.run(driver))
run_all(self, d) == [i \in 1..Len(self.rules) |-> Run(self.rules[i], d)]

IsErr(r) == ~is_ok(r)

\* Iterator::partition: the items the predicate accepts, then the others,
\* each in iteration order.
partition(s) == <<SelectSeq(s, is_ok), SelectSeq(s, IsErr)>>

RECURSIVE UpToFirstErr(_)
UpToFirstErr(s) ==
    IF s = <<>> THEN <<>>
    ELSE IF IsErr(Head(s)) THEN <<Head(s)>>
    ELSE UpToFirstErr(Tail(s))

Reverse(s) == [i \in 1..Len(s) |-> s[Len(s) + 1 - i]]

validate_fail_fast(self, d) ==
    LET errors == UpToFirstErr(run_all(self, d))
    IN  [i \in 1..Len(errors) |-> unwrap_err(errors[i])]

validate_reversed(self, d) ==
    LET errors == Reverse(partition(run_all(self, d))[2])
    IN  [i \in 1..Len(errors) |-> unwrap_err(errors[i])]

validate(self, d) ==
    LET errors == partition(run_all(self, d))[2]
    IN  [i \in 1..Len(errors) |-> unwrap_err(errors[i])]

DriverValidatorBuilder_new == [rules |-> <<>>]

with_rule_prepend(self, r) == [self EXCEPT !.rules = <<r>> \o @]

with_rule(self, r) == [self EXCEPT !.rules = Append(@, r)]

build(self) == [rules |-> self.rules]

---------------------------------------------------------------------------
(* Inputs of the validator specification *)

Rules ==
    {HasDrivingLicence, IsSober(Num(49)), HasAge(18), HasValidDrivingLicence(1)}

\* <<age, alcohol_in_blood>>: under age and sober, under age and not sober,
\* of age and sober.
AgeAndAlcohol == {<<17, Num(30)>>, <<17, Num(50)>>, <<18, Num(30)>>}

Drivers ==
    {Driver(p[1], p[2], l) :
        p \in AgeAndAlcohol,
        l \in {None} \cup {Some(Licence("A", e)) : e \in 0..MaxDate}}

RECURSIVE SeqsUpTo(_, _)
SeqsUpTo(S, n) ==
    IF n = 0 THEN {<<>>}
    ELSE LET shorter == SeqsUpTo(S, n - 1)
         IN  shorter \cup {Append(s, x) : s \in {t \in shorter : Len(t) = n - 1}, x \in S}

\* The lists holding one instance of each rule, in every order.
OneOfEach ==
    {s \in SeqsUpTo(Rules, Cardinality(Rules)) :
        /\ Len(s) = Cardinality(Rules)
        /\ \A i, j \in 1..Len(s) : i # j => s[i] # s[j]}

RuleLists == SeqsUpTo(Rules, MaxRules) \cup OneOfEach

Built == validator # None
Called == result # None

---------------------------------------------------------------------------
(* The validator specification *)

Init ==
    /\ builder = None
    /\ validator = None
    /\ origin = "none"
    /\ calls = <<>>
    /\ driver = None
    /\ outcomes = <<>>
    /\ result = None
    /\ first = None
    /\ rule = HasDrivingLicence
    /\ subject = Driver(0, Num(0), None)
    /\ outcome = None

\* DriverValidatorBuilder::new()
BuilderNew ==
    /\ origin = "none"
    /\ builder' = Some(DriverValidatorBuilder_new)
    /\ origin' = "builder"
    /\ UNCHANGED <<validator, calls, driver, outcomes, result, first, ruleVars>>

\* builder.with_rule(Box::new(r))
WithRule(r) ==
    /\ builder # None
    /\ Len(builder[1].rules) < MaxRules
    /\ builder' = Some(with_rule(builder[1], r))
    /\ calls' = Append(calls, r)
    /\ UNCHANGED <<validator, origin, driver, outcomes, result, first, ruleVars>>

\* builder.build(): the builder is moved into the validator
Build ==
    /\ builder # None
    /\ validator' = Some(build(builder[1]))
    /\ builder' = None
    /\ UNCHANGED <<origin, calls, driver, outcomes, result, first, ruleVars>>

\* DriverValidator::new(rules)
New ==
    /\ origin = "none"
    /\ \E rules \in RuleLists : validator' = Some(DriverValidator_new(rules))
    /\ origin' = "new"
    /\ UNCHANGED <<builder, calls, driver, outcomes, result, first, ruleVars>>

\* The caller makes a Driver value; no validate call has seen it yet.
SetDriver(d) ==
    /\ driver # Some(d)
    /\ driver' = Some(d)
    /\ outcomes' = <<>>
    /\ result' = None
    /\ UNCHANGED <<builder, validator, origin, calls, first, ruleVars>>

\* The record of the first validate call, and its update by a later call.
Remember(d, os, errs) ==
    IF first = None
      THEN Some([driver |-> d, outcomes |-> os, result |-> errs, again |-> FALSE])
      ELSE IF first[1].driver = d
             THEN Some([first[1] EXCEPT !.again = TRUE])
             ELSE first

\* A validate that drops from the validator the rules that failed.
ValidateDropping ==
    /\ Built
    /\ driver # None
    /\ outcomes' = run_all(validator[1], driver[1])
    /\ result' = Some(validate(validator[1], driver[1]))
    /\ first' = Remember(driver[1], outcomes', result'[1])
    /\ validator' = Some([rules |->
          SelectSeq(validator[1].rules, LAMBDA r : is_ok(Run(r, driver[1])))])
    /\ UNCHANGED <<builder, origin, calls, driver, ruleVars>>

\* A validate that takes the licence out of the driver it is given.
ValidateTakingLicence ==
    /\ Built
    /\ driver # None
    /\ outcomes' = run_all(validator[1], driver[1])
    /\ result' = Some(validate(validator[1], driver[1]))
    /\ first' = Remember(driver[1], outcomes', result'[1])
    /\ driver' = Some([driver[1] EXCEPT !.licence = None])
    /\ UNCHANGED <<builder, validator, origin, calls, ruleVars>>

\* validator.validate(&driver)
Validate ==
    /\ Built
    /\ driver # None
    /\ outcomes' = run_all(validator[1], driver[1])
    /\ result' = Some(validate(validator[1], driver[1]))
    /\ first' = Remember(driver[1], outcomes', result'[1])
    /\ UNCHANGED <<builder, validator, origin, calls, driver, ruleVars>>

Next ==
    \/ BuilderNew
    \/ \E r \in Rules : WithRule(r)
    \/ Build
    \/ New
    \/ \E d \in Drivers : SetDriver(d)
    \/ Validate

Spec == Init /\ [][Next]_vars

---------------------------------------------------------------------------
(* The rule specification: one rule, run against one driver *)

U8 == 0..U8Max
Dates == 0..MaxDate
Floats == {Num(n) : n \in (0 - MaxLevel)..MaxLevel} \cup {NaN, PosInf, NegInf}
Licences == {None} \cup {Some(Licence(t, e)) : t \in LicenceType, e \in Dates}
SomeLicences == {None, Some(Licence("B", 0)), Some(Licence("CE", MaxDate))}

RuleInputs ==
    {<<HasAge(req), Driver(a, Num(0), l)>> :
        req \in U8, a \in U8, l \in {None}}
    \cup {<<IsSober(lvl), Driver(18, alc, l)>> :
        lvl \in Floats, alc \in Floats, l \in SomeLicences}
    \cup {<<HasDrivingLicence, Driver(a, alc, l)>> :
        a \in {0, U8Max}, alc \in {Num(0), NaN}, l \in Licences}
    \cup {<<HasValidDrivingLicence(date), Driver(a, alc, l)>> :
        date \in Dates, a \in {0, U8Max}, alc \in {Num(0), NaN}, l \in Licences}

RuleInit ==
    /\ builder = None
    /\ validator = None
    /\ origin = "none"
    /\ calls = <<>>
    /\ driver = None
    /\ outcomes = <<>>
    /\ result = None
    /\ first = None
    /\ \E in \in RuleInputs : rule = in[1] /\ subject = in[2]
    /\ outcome = None

\* rule.run(&driver)
RunRule ==
    /\ outcome' = Some(Run(rule, subject))
    /\ UNCHANGED <<rule, subject, validatorVars>>

RuleNext == RunRule

RuleSpec == RuleInit /\ [][RuleNext]_vars

---------------------------------------------------------------------------
(* Properties *)

\* The positions of the validator's rules whose run fails on driver d.
FailingRules(v, d) == {i \in 1..Len(v.rules) : ~is_ok(Run(v.rules[i], d))}

\* The errors of the failing rules, from the first rule to the last.
RECURSIVE ErrorsInOrder(_, _)
ErrorsInOrder(rules, d) ==
    IF rules = <<>> THEN <<>>
    ELSE LET r == Run(Head(rules), d)
         IN  (IF r.ok THEN <<>> ELSE r.err) \o ErrorsInOrder(Tail(rules), d)

ScenarioRules == <<HasDrivingLicence, IsSober(Num(49)), HasAge(18)>>
ScenarioDriver == Driver(17, Num(30), None)

\* C1: validate runs every rule and returns exactly one error per failing
\* rule and none per passing rule: the result is as long as the number of
\* failing rules, and empty exactly when every rule passes.
C1_OneErrorPerFailingRule ==
    Called =>
        /\ Len(outcomes) = Len(validator[1].rules)
        /\ Len(result[1]) = Cardinality(FailingRules(validator[1], driver[1]))
        /\ (result[1] = <<>>) <=> (FailingRules(validator[1], driver[1]) = {})

\* A failing rule, then a passing one, then a failing one: both errors returned.
C1_Witness ==
    /\ Called
    /\ Len(validator[1].rules) = 3
    /\ FailingRules(validator[1], driver[1]) = {1, 3}
    /\ Len(result[1]) = 2

\* C2: the result of validate is the sequence of the failing rules' own
\* error values in rule-insertion order; the driver {17, 0.3, no licence}
\* against [HasDrivingLicence, IsSober(0.49), HasAge(18)] gives
\* [WithoutLicence, UnderRequiredAge(17)].
C2_ErrorsInInsertionOrder ==
    Called =>
        /\ result[1] = ErrorsInOrder(validator[1].rules, driver[1])
        /\ (validator[1].rules = ScenarioRules /\ driver[1] = ScenarioDriver)
              => result[1] = <<WithoutLicence, UnderRequiredAge(17)>>

C2_Witness ==
    /\ Called
    /\ origin = "builder"
    /\ validator[1].rules = ScenarioRules
    /\ driver[1] = ScenarioDriver
    /\ result[1] = <<WithoutLicence, UnderRequiredAge(17)>>

\* C3: HasAge.run fails exactly when age < required_age, with
\* UnderRequiredAge(age); age >= required_age passes, for every pair of u8
\* values (required_age = 0 fails nobody).
C3_HasAge ==
    (rule.kind = "HasAge" /\ outcome # None) =>
        /\ (subject.age < rule.cfg[1])
              => outcome[1] = Err(UnderRequiredAge(subject.age))
        /\ (subject.age >= rule.cfg[1]) => outcome[1] = Ok
        /\ (rule.cfg[1] = 0) => outcome[1] = Ok

\* The largest threshold, and a driver one year under it.
C3_Witness ==
    /\ rule = HasAge(U8Max)
    /\ subject.age = U8Max - 1
    /\ outcome = Some(Err(UnderRequiredAge(U8Max - 1)))

\* C4: IsSober.run fails exactly when alcohol_in_blood > allowed_level, with
\* AboveAllowedAlcoholLevel(alcohol_in_blood); a value equal to or below
\* allowed_level passes.
C4_IsSober ==
    (rule.kind = "IsSober" /\ outcome # None) =>
        LET alc == subject.alcohol_in_blood
            lvl == rule.cfg[1]
        IN  /\ FloatGt(alc, lvl) => outcome[1] = Err(AboveAllowedAlcoholLevel(alc))
            /\ ~FloatGt(alc, lvl) => outcome[1] = Ok
            /\ (alc.cls = "num" /\ lvl.cls = "num" /\ alc.v <= lvl.v)
                  => outcome[1] = Ok
            /\ (alc.cls = "num" /\ lvl.cls = "num" /\ alc.v = lvl.v + 1)
                  => outcome[1] = Err(AboveAllowedAlcoholLevel(alc))

\* The smallest step above the allowed level.
C4_Witness ==
    /\ rule = IsSober(Num(0))
    /\ subject.alcohol_in_blood = Num(1)
    /\ outcome = Some(Err(AboveAllowedAlcoholLevel(Num(1))))

\* C5: HasValidDrivingLicence.run passes when there is no licence; with a
\* licence it passes exactly when expiration >= the rule's date and
\* otherwise fails with LicenceExpired(expiration), whatever the category.
C5_HasValidDrivingLicence ==
    (rule.kind = "HasValidDrivingLicence" /\ outcome # None) =>
        /\ (subject.licence = None) => outcome[1] = Ok
        /\ (subject.licence # None) =>
              /\ (subject.licence[1].expiration >= rule.cfg[1])
                    <=> (outcome[1] = Ok)
              /\ (subject.licence[1].expiration < rule.cfg[1])
                    => outcome[1] = Err(LicenceExpired(subject.licence[1].expiration))

\* A licence that expired the instant before the reference date.
C5_Witness ==
    /\ rule = HasValidDrivingLicence(MaxDate)
    /\ subject.licence # None
    /\ subject.licence[1].licence_type = "DE"
    /\ subject.licence[1].expiration = MaxDate - 1
    /\ outcome = Some(Err(LicenceExpired(MaxDate - 1)))

\* C6: HasDrivingLicence.run fails with WithoutLicence exactly when the
\* licence is absent; a present licence passes for every category and
\* every expiration.
C6_HasDrivingLicence ==
    (rule.kind = "HasDrivingLicence" /\ outcome # None) =>
        /\ (subject.licence = None) <=> (outcome[1] = Err(WithoutLicence))
        /\ (subject.licence # None) <=> (outcome[1] = Ok)

\* A licence with the earliest expiration passes.
C6_Witness ==
    /\ rule = HasDrivingLicence
    /\ subject.licence # None
    /\ subject.licence[1].expiration = 0
    /\ outcome = Some(Ok)

\* C7: every validate call on the driver of the first call returns what the
\* first call returned, and every rule's run in it what it returned then,
\* whatever calls on other drivers were made in between.
C7_Idempotent ==
    (Called /\ first # None /\ first[1].driver = driver[1]) =>
        /\ result[1] = first[1].result
        /\ outcomes = first[1].outcomes

\* The first call's driver validated again, with errors to compare.
C7_Witness ==
    /\ Called
    /\ first # None
    /\ first[1].again
    /\ first[1].driver = driver[1]
    /\ Len(result[1]) >= 2

\* C8: the validator built after with_rule(r1), ..., with_rule(rn) holds
\* r1..rn in call order, and validate returns what the validator made by
\* DriverValidator::new of that list returns; with no with_rule call the
\* result is empty.
C8_BuilderKeepsCallOrder ==
    (origin = "builder") =>
        /\ builder # None => builder[1].rules = calls
        /\ Built => validator[1].rules = calls
        /\ Called => result[1] = validate(DriverValidator_new(calls), driver[1])
        /\ (Called /\ calls = <<>>) => result[1] = <<>>

C8_Witness ==
    /\ origin = "builder"
    /\ calls = <<HasAge(18), HasDrivingLicence, IsSober(Num(49))>>
    /\ Called
    /\ result[1] = <<UnderRequiredAge(17), WithoutLicence, AboveAllowedAlcoholLevel(Num(50))>>

\* C9: a validate call changes neither the driver nor the validator's rule
\* list (rules, order, thresholds, dates), whether the rules pass or fail.
C9_ValidateChangesNothing ==
    [][(Built /\ driver # None /\ result' # None)
          => (driver' = driver /\ validator' = validator)]_vars

\* A call in which some rule failed and some rule passed.
C9_Witness ==
    /\ Called
    /\ \E i, j \in 1..Len(outcomes) : outcomes[i].ok /\ ~outcomes[j].ok

HasKind(r, k) == r.kind = k

\* C10: HasDrivingLicence and HasValidDrivingLicence never both fail on a
\* driver; a validator with one instance of each of the four rules returns
\* at most 3 errors, and no result holds both WithoutLicence and a
\* LicenceExpired.
C10_LicenceRulesExclusive ==
    Called =>
        /\ \A i, j \in 1..Len(outcomes) :
              (/\ HasKind(validator[1].rules[i], "HasDrivingLicence")
               /\ HasKind(validator[1].rules[j], "HasValidDrivingLicence"))
                  => (outcomes[i].ok \/ outcomes[j].ok)
        /\ (driver[1].licence = None) =>
              \A i \in 1..Len(result[1]) : result[1][i].kind # "LicenceExpired"
        /\ (driver[1].licence # None) =>
              \A i \in 1..Len(result[1]) : result[1][i] # WithoutLicence
        /\ (validator[1].rules \in OneOfEach) => Len(result[1]) <= 3
        /\ ~(/\ \E i \in 1..Len(result[1]) : result[1][i] = WithoutLicence
             /\ \E i \in 1..Len(result[1]) : result[1][i].kind = "LicenceExpired")

\* The four rules on an under-age, not sober driver with an expired licence.
C10_Witness ==
    /\ Called
    /\ validator[1].rules \in OneOfEach
    /\ driver[1].licence # None
    /\ Len(result[1]) = 3

===========================================================================
